---- MODULE Spec2Model ----
(***************************************************************************)
(* Model of the serde_map crate: SerdeMap<K, V, KS>, an insertion-ordered  *)
(* Vec of (KS::Des, V) pairs whose keys pass through a SerdeMapStrategy    *)
(* when the container is written to / read from a serde map, plus the      *)
(* HashMap conversions and the scylla SerializeValue adapter.              *)
(*                                                                         *)
(* Strings are sequences of one-character strings (<<"4","2">> is "42") so *)
(* that i64::to_string and str::parse are computed, not assumed.           *)
(* A usize is four 16-bit limbs, most significant first, so that lengths   *)
(* above i32::MAX keep their width.                                        *)
(***************************************************************************)
EXTENDS Integers, Sequences, FiniteSets

VARIABLES
    strategy,   \* the KS type parameter: "Linear" or "StringStrategy"
    capacity,   \* capacity asked of the constructor (0 for new())
    data,       \* self.0 : Vec<(KS::Des, V)>
    log,        \* the insert_unchecked calls made so far, in call order
    pc,         \* position of the running operation
    sink,       \* what the serde Serializer has been told
    src,        \* the MapAccess being visited
    pos,        \* entries already written (serialize) / read (visit_map)
    values,     \* the container visit_map is building
    result,     \* Result returned by the last finished operation
    gdata,      \* self.0 of a SerdeMap<K, Vec<V>, KS>
    glog,       \* the push_to_same_last calls made so far, in call order
    hsrc,       \* the HashMap a container was built from
    hash,       \* the HashMap a container was converted into
    bulk,       \* a container too long to list: `times` copies of `pair`
    call,       \* arguments of the last serialize_mapping call
    cell        \* what the scylla CellWriter's buffer holds of the cell:
                \* `bytes`, then `times` copies of `repeat`

vars == <<strategy, capacity, data, log, pc, sink, src, pos, values, result,
          gdata, glog, hsrc, hash, bulk, call, cell>>

(***************************************************************************)
(* Bounds of the model.                                                    *)
(***************************************************************************)
MaxLen == 3        \* most entries a container is grown to
MaxSrcLen == 3     \* most entries a visited map source holds
MaxCap == 1        \* largest capacity asked of with_capacity
MaxPush == 4       \* most push_to_same_last calls made on a container

(***************************************************************************)
(* Result<T, E> and Option<T>.                                             *)
(***************************************************************************)
Ok(x) == [tag |-> "Ok", val |-> x]
Err(e) == [tag |-> "Err", err |-> e]
NoResult == [tag |-> "None"]

Last(s) == s[Len(s)]

(***************************************************************************)
(* i64::to_string and str::parse::<i64>, on strings held as sequences of   *)
(* characters.                                                             *)
(***************************************************************************)
Digits == <<"0", "1", "2", "3", "4", "5", "6", "7", "8", "9">>
IsDigit(c) == \E d \in 1..10 : Digits[d] = c
DigitVal(c) == (CHOOSE d \in 1..10 : Digits[d] = c) - 1

RECURSIVE NatToString(_)
NatToString(n) ==
    IF n < 10 THEN <<Digits[n + 1]>>
    ELSE NatToString(n \div 10) \o <<Digits[(n % 10) + 1]>>

to_string(d) == IF d < 0 THEN <<"-">> \o NatToString(-d) ELSE NatToString(d)

RECURSIVE ParseDigits(_, _, _)
ParseDigits(s, acc, sign) ==
    IF s = <<>> THEN Ok(acc)
    ELSE IF ~IsDigit(Head(s)) THEN Err("InvalidDigit")
    ELSE ParseDigits(Tail(s), acc * 10 + sign * DigitVal(Head(s)), sign)

\* core::num: an empty string is Empty, a lone sign is InvalidDigit, a leading
\* "+" or "-" is consumed, every other character must be a decimal digit.
\* (Keys of the model are at most three characters long, so the overflow
\* results PosOverflow / NegOverflow are out of reach and not modelled.)
Parse(s) ==
    IF s = <<>> THEN Err("Empty")
    ELSE IF Len(s) = 1 /\ Head(s) \in {"+", "-"} THEN Err("InvalidDigit")
    ELSE IF Head(s) = "+" THEN ParseDigits(Tail(s), 0, 1)
    ELSE IF Head(s) = "-" THEN ParseDigits(Tail(s), 0, -1)
    ELSE ParseDigits(s, 0, 1)

(***************************************************************************)
(* SerdeMapStrategy: Linear, and the StringStrategy of the trait's         *)
(* documentation (Ser = String, Des = i64).                                *)
(***************************************************************************)
Strategies == {"Linear", "StringStrategy"}

Linear_serialize(d) == d
Linear_deserialize(s) == Ok(s)

StringStrategy_serialize(d) == to_string(d)
StringStrategy_deserialize(s) ==
    LET r == Parse(s)
    IN  IF r.tag = "Ok" THEN r ELSE Err([kind |-> "custom", msg |-> r.err])

KS_serialize(ks, d) ==
    IF ks = "Linear" THEN Linear_serialize(d) ELSE StringStrategy_serialize(d)

KS_deserialize(ks, s) ==
    IF ks = "Linear" THEN Linear_deserialize(s) ELSE StringStrategy_deserialize(s)

(***************************************************************************)
(* Inputs of the model.                                                    *)
(***************************************************************************)
Values == {1, 2}

\* KS::Des: String under Linear (K = String), i64 under StringStrategy.
DomainKeys(ks) ==
    IF ks = "Linear" THEN {<<"a">>, <<"4", "2">>, <<"+", "7">>}
    ELSE {42, -7, 0}

\* K = String as a map source presents it.
WireKeys == {<<"4", "2">>, <<"a", "b", "c">>, <<"+", "7">>, <<"-", "7">>, <<>>}
WireEntries == WireKeys \X Values

SeqsUpTo(S, n) == UNION {[1..m -> S] : m \in 0..n}

(***************************************************************************)
(* SerdeMap: the Vec inside, and the methods that read or grow it.         *)
(***************************************************************************)
new == <<>>
with_capacity(n) == <<>>

\* Mutation of insert_unchecked: a map-style insert that overwrites the value
\* of an entry already holding the key.
insert_unchecked_overwriting(vec, k, v) ==
    IF \E i \in 1..Len(vec) : vec[i][1] = k
    THEN [i \in 1..Len(vec) |-> IF vec[i][1] = k THEN <<k, v>> ELSE vec[i]]
    ELSE Append(vec, <<k, v>>)
insert_unchecked(vec, k, v) == Append(vec, <<k, v>>)

len(vec) == Len(vec)
is_empty(vec) == Len(vec) = 0

\* An iterator is run by calling next() until it returns None; the sequence
\* below is what it yields.
RECURSIVE Drain(_)
Drain(vec) == IF vec = <<>> THEN <<>> ELSE <<Head(vec)>> \o Drain(Tail(vec))

into_iter(vec) == Drain(vec)     \* IntoIterator for SerdeMap
iter(vec) == Drain(vec)          \* IntoIterator for &SerdeMap
iter_mut(vec) == Drain(vec)      \* IntoIterator for &mut SerdeMap

(***************************************************************************)
(* Serialize for SerdeMap, one Serializer call per step.  The Serializer   *)
(* is the caller's: any call of it may return an error, which `?` returns. *)
(***************************************************************************)
NoSink == [declared |-> <<>>, entries |-> <<>>, ended |-> FALSE]
NoSrc == [entries |-> <<>>, fail |-> FALSE]
SinkError == [kind |-> "sink"]
SourceError == [kind |-> "source"]

\* Mutation of serialize_entry_args: the items are walked back to front.
serialize_entry_args_reversed(ks, vec, n) ==
    LET item == iter(vec)[Len(vec) + 1 - n] IN <<KS_serialize(ks, item[1]), item[2]>>
\* KS::serialize(k), v : what serialize_entry is handed for the n-th item.
serialize_entry_args(ks, vec, n) ==
    LET item == iter(vec)[n] IN <<KS_serialize(ks, item[1]), item[2]>>

ContainerVars == <<strategy, capacity, data, log>>
SerdeVars == <<sink, src, pos, values, result>>
OtherVars == <<gdata, glog, hsrc, hash, bulk, call, cell>>

InsertUnchecked(k, v) ==
    /\ pc = "idle"
    /\ len(data) < MaxLen
    /\ data' = insert_unchecked(data, k, v)
    /\ log' = Append(log, <<k, v>>)
    /\ UNCHANGED <<strategy, capacity, pc, SerdeVars, OtherVars>>

SerializeBegin(accepted) ==
    /\ pc = "idle"
    /\ sink' = [NoSink EXCEPT !.declared = <<len(data)>>]
    /\ pos' = 0
    /\ IF accepted
       THEN pc' = "ser" /\ result' = result
       ELSE pc' = "ser_failed" /\ result' = Err(SinkError)
    /\ UNCHANGED <<ContainerVars, src, values, OtherVars>>

SerializeEntry(accepted) ==
    /\ pc = "ser"
    /\ pos < Len(iter(data))
    /\ IF accepted
       THEN /\ sink' = [sink EXCEPT !.entries =
                          Append(@, serialize_entry_args(strategy, data, pos + 1))]
            /\ pos' = pos + 1
            /\ UNCHANGED <<pc, result>>
       ELSE /\ pc' = "ser_failed"
            /\ result' = Err(SinkError)
            /\ UNCHANGED <<sink, pos>>
    /\ UNCHANGED <<ContainerVars, src, values, OtherVars>>

SerializeEnd(accepted) ==
    /\ pc = "ser"
    /\ pos = Len(iter(data))
    /\ IF accepted
       THEN /\ sink' = [sink EXCEPT !.ended = TRUE]
            /\ pc' = "ser_done"
            /\ result' = Ok("unit")
       ELSE /\ pc' = "ser_failed"
            /\ result' = Err(SinkError)
            /\ UNCHANGED sink
    /\ UNCHANGED <<ContainerVars, src, pos, values, OtherVars>>

(***************************************************************************)
(* Deserialize for SerdeMap: MapVisitor::visit_map, one next_entry() per   *)
(* step.  A source holds its entries and then either ends (None) or fails. *)
(***************************************************************************)
\* Mutation of visit_entry: a key the strategy rejects is skipped.
visit_entry_skipping(ks, vals, entry) ==
    LET r == KS_deserialize(ks, entry[1])
    IN  IF r.tag = "Ok" THEN Ok(insert_unchecked(vals, r.val, entry[2]))
        ELSE Ok(vals)
\* Mutation of visit_entry: the pair is inserted as into a map, replacing the
\* value of an equal key already read.
visit_entry_as_map(ks, vals, entry) ==
    LET r == KS_deserialize(ks, entry[1])
    IN  IF r.tag = "Ok" THEN Ok(insert_unchecked_overwriting(vals, r.val, entry[2]))
        ELSE Err(r.err)
\* The body of the while loop for one entry the source has delivered.
visit_entry(ks, vals, entry) ==
    LET r == KS_deserialize(ks, entry[1])
    IN  IF r.tag = "Ok" THEN Ok(insert_unchecked(vals, r.val, entry[2]))
        ELSE Err(r.err)

\* A fresh decode of some map source; it neither reads nor changes `data`, so
\* it is started from the empty container only.
DeserializeInput ==
    /\ pc = "idle"
    /\ data = <<>>
    /\ \E entries \in SeqsUpTo(WireEntries, MaxSrcLen), fail \in BOOLEAN :
          src' = [entries |-> entries, fail |-> fail]
    /\ values' = new
    /\ pos' = 0
    /\ pc' = "des"
    /\ UNCHANGED <<ContainerVars, sink, result, OtherVars>>

\* Decoding what a finished serialization wrote.
DeserializeWritten ==
    /\ pc = "ser_done"
    /\ src' = [entries |-> sink.entries, fail |-> FALSE]
    /\ values' = new
    /\ pos' = 0
    /\ pc' = "des"
    /\ UNCHANGED <<ContainerVars, sink, result, OtherVars>>

VisitEntry ==
    /\ pc = "des"
    /\ pos < Len(src.entries)
    /\ pos' = pos + 1
    /\ LET r == visit_entry(strategy, values, src.entries[pos + 1])
       IN  IF r.tag = "Ok"
           THEN values' = r.val /\ UNCHANGED <<pc, result>>
           ELSE values' = <<>> /\ pc' = "des_failed" /\ result' = r
    /\ UNCHANGED <<ContainerVars, sink, src, OtherVars>>

VisitEnd ==
    /\ pc = "des"
    /\ pos = Len(src.entries)
    /\ IF src.fail
       THEN values' = <<>> /\ pc' = "des_failed" /\ result' = Err(SourceError)
       ELSE values' = values /\ pc' = "des_done" /\ result' = Ok(values)
    /\ UNCHANGED <<ContainerVars, sink, src, pos, OtherVars>>

Init ==
    /\ strategy \in Strategies
    /\ capacity \in 0..MaxCap
    /\ data = IF capacity = 0 THEN new ELSE with_capacity(capacity)
    /\ log = <<>>
    /\ pc = "idle"
    /\ sink = NoSink
    /\ src = NoSrc
    /\ pos = 0
    /\ values = <<>>
    /\ result = NoResult
    /\ gdata = <<>>
    /\ glog = <<>>
    /\ hsrc = <<>>
    /\ hash = <<>>
    /\ bulk = [pair |-> <<0, 0>>, times |-> <<0, 0, 0, 0>>]
    /\ call = <<>>
    /\ cell = [bytes |-> <<>>, repeat |-> <<>>, times |-> <<0, 0, 0, 0>>]

Next ==
    \/ \E k \in DomainKeys(strategy), v \in Values : InsertUnchecked(k, v)
    \/ \E accepted \in BOOLEAN : SerializeBegin(accepted)
    \/ \E accepted \in BOOLEAN : SerializeEntry(accepted)
    \/ \E accepted \in BOOLEAN : SerializeEnd(accepted)
    \/ DeserializeInput
    \/ DeserializeWritten
    \/ VisitEntry
    \/ VisitEnd

Spec == Init /\ [][Next]_vars

(***************************************************************************)
(* SerdeMap<K, Vec<V>, KS>::push_to_same_last.                             *)
(***************************************************************************)
\* Mutation of push_to_same_last: the value joins the first entry holding the
\* key, wherever it is (a group-by over the whole container).
push_to_same_last_any_entry(vec, k, v) ==
    IF \E i \in 1..Len(vec) : vec[i][1] = k
    THEN LET i == CHOOSE i \in 1..Len(vec) :
                     vec[i][1] = k /\ \A j \in 1..(i - 1) : vec[j][1] # k
         IN  [vec EXCEPT ![i][2] = Append(@, v)]
    ELSE Append(vec, <<k, <<v>>>>)
\* Mutation of push_to_same_last: the key of the last entry is never compared.
push_to_same_last_never_merging(vec, k, v) == Append(vec, <<k, <<v>>>>)
push_to_same_last(vec, k, v) ==
    IF vec # <<>> /\ Last(vec)[1] = k
    THEN [vec EXCEPT ![Len(vec)][2] = Append(@, v)]
    ELSE Append(vec, <<k, <<v>>>>)

PushToSameLast(k, v) ==
    /\ pc = "idle"
    /\ Len(glog) < MaxPush
    /\ gdata' = push_to_same_last(gdata, k, v)
    /\ glog' = Append(glog, <<k, v>>)
    /\ UNCHANGED <<ContainerVars, pc, SerdeVars, hsrc, hash, bulk, call, cell>>

NextGroup == \E k \in DomainKeys(strategy), v \in Values : PushToSameLast(k, v)

SpecGroup == Init /\ [][NextGroup]_vars

(***************************************************************************)
(* Conversions: From<Vec<(KS::Des, V)>>, From<HashMap>, and                *)
(* From<SerdeMap> for HashMap.  A HashMap is a function on its key set;    *)
(* the order its into_iter() yields is any order of those keys.            *)
(***************************************************************************)
EmptyHashMap == <<>>

\* Mutation of HashMap_insert: a key already present keeps its value.
HashMap_insert_keeping(h, k, v) ==
    [x \in (DOMAIN h) \cup {k} |-> IF x \in DOMAIN h THEN h[x] ELSE v]
HashMap_insert(h, k, v) ==
    [x \in (DOMAIN h) \cup {k} |-> IF x = k THEN v ELSE h[x]]

\* FromIterator for HashMap: every item is inserted, in the order yielded.
RECURSIVE collect_hash(_, _)
collect_hash(items, h) ==
    IF items = <<>> THEN h
    ELSE collect_hash(Tail(items), HashMap_insert(h, Head(items)[1], Head(items)[2]))

into_hash(vec) == collect_hash(into_iter(vec), EmptyHashMap)

from_vec(vec) == vec

\* Mutation of from_hash: the last pair the map yields is left out.
from_hash_dropping(h, order) ==
    [i \in 1..(Len(order) - 1) |-> <<order[i], h[order[i]]>>]
\* hash.into_iter().collect(), `order` being the order the map yields its keys in.
from_hash(h, order) == [i \in 1..Len(order) |-> <<order[i], h[order[i]]>>]

HashMaps(K, V) == UNION {[S -> V] : S \in SUBSET K}
Orders(S) == {o \in [1..Cardinality(S) -> S] :
                 \A i, j \in 1..Cardinality(S) : o[i] = o[j] => i = j}

HashUnchanged == <<strategy, capacity, log, SerdeVars, gdata, glog, bulk, call, cell>>

FromVec ==
    /\ pc = "idle"
    /\ \E vec \in SeqsUpTo(DomainKeys(strategy) \X Values, MaxLen) :
          data' = from_vec(vec)
    /\ pc' = "from_vec"
    /\ UNCHANGED <<hsrc, hash, HashUnchanged>>

FromHashMap ==
    /\ pc = "idle"
    /\ \E h \in HashMaps(DomainKeys(strategy), Values) :
       \E order \in Orders(DOMAIN h) :
          /\ hsrc' = h
          /\ data' = from_hash(h, order)
    /\ pc' = "from_hash"
    /\ UNCHANGED <<hash, HashUnchanged>>

\* The container is moved into the conversion; `data` keeps what it held.
IntoHashMap ==
    /\ pc \in {"from_vec", "from_hash"}
    /\ hash' = into_hash(data)
    /\ pc' = IF pc = "from_vec" THEN "vec_to_hash" ELSE "hash_to_hash"
    /\ UNCHANGED <<data, hsrc, HashUnchanged>>

NextHash ==
    \/ FromVec
    \/ FromHashMap
    \/ IntoHashMap

SpecHash == Init /\ [][NextHash]_vars

(***************************************************************************)
(* scylla: SerializeValue for SerdeMap, through serialize_mapping.         *)
(* Here KS is StringStrategy, so KS::Des = i64 (a bigint cell) and V = i32 *)
(* (an int cell).  A usize is <<l3, l2, l1, l0>>, four 16-bit limbs.       *)
(***************************************************************************)
Native(name) == [kind |-> "Native", name |-> name]
Collection(frozen, typ) == [kind |-> "Collection", frozen |-> frozen, typ |-> typ]
MapOf(k, v) == [coll |-> "Map", k |-> k, v |-> v]
ListOf(e) == [coll |-> "List", e |-> e]
SetOf(e) == [coll |-> "Set", e |-> e]
TupleOf(ts) == [kind |-> "Tuple", elems |-> ts]

ColumnTypes ==
    { Native("BigInt"), Native("Int"), Native("Text"),
      TupleOf(<<Native("BigInt"), Native("Int")>>),
      Collection(FALSE, ListOf(Native("BigInt"))),
      Collection(FALSE, SetOf(Native("BigInt"))),
      Collection(TRUE, MapOf(Native("BigInt"), Native("Int"))),
      Collection(FALSE, MapOf(Native("BigInt"), Native("Int"))),
      Collection(FALSE, MapOf(Native("Text"), Native("Int"))),
      Collection(FALSE, MapOf(Native("BigInt"), Native("Text"))) }

\* Module paths the crate that defines StringStrategy may give it.
StrategyPaths == {"my_app", "my_app::keys"}

\* std::any::type_name::<Self>(): every type is named with its path, the
\* strategy with the path of the module that defines it.  The name is the
\* pieces below, joined.
type_name(path) ==
    <<"serde_map::SerdeMap<alloc::string::String, i32, ", path, "::StringStrategy>">>

usize_from(n) == <<0, 0, n \div 65536, n % 65536>>

\* Lengths around the ends of the i32 and u32 ranges, and up to the longest
\* Vec of 16-byte pairs there can be (isize::MAX / 16 = 2^59 - 1).
LargeLens ==
    { <<0, 0, 32767, 65534>>, <<0, 0, 32767, 65535>>, <<0, 0, 32768, 0>>,
      <<0, 0, 65535, 65535>>, <<0, 1, 0, 0>>, <<0, 1, 0, 2>>,
      <<1, 0, 0, 1>>, <<2047, 65535, 65535, 65535>> }

\* What an iterator yields: the pairs of `head`, then `times` copies of `pair`.
vec_iter(vec) == [head |-> iter(vec), pair |-> <<0, 0>>, times |-> usize_from(0)]
bulk_iter(b) == [head |-> <<>>, pair |-> b.pair, times |-> b.times]

NoCell == [bytes |-> <<>>, repeat |-> <<>>, times |-> usize_from(0)]

\* Mutation of usize_try_into_i32: the cast `len as i32`, which keeps the low
\* 32 bits and never fails.
usize_as_i32(n) ==
    Ok(IF n[3] < 32768 THEN n[3] * 65536 + n[4] ELSE (n[3] - 65536) * 65536 + n[4])
\* i32::try_from(usize)
usize_try_into_i32(n) ==
    IF n[1] = 0 /\ n[2] = 0 /\ n[3] < 32768
    THEN Ok(n[3] * 65536 + n[4])
    ELSE Err("TryFromIntError")

NatToBeBytes(m) ==
    <<m \div 16777216, (m \div 65536) % 256, (m \div 256) % 256, m % 256>>
\* i32::to_be_bytes: two's complement, most significant byte first.
i32_to_be_bytes(x) ==
    IF x >= 0 THEN NatToBeBytes(x)
    ELSE [i \in 1..4 |-> 255 - NatToBeBytes(-(x + 1))[i]]
\* i64::to_be_bytes of a value in the i32 range: the sign fills the high half.
i64_to_be_bytes(x) ==
    (IF x >= 0 THEN <<0, 0, 0, 0>> ELSE <<255, 255, 255, 255>>) \o i32_to_be_bytes(x)

\* K::serialize / V::serialize into a sub-writer: the cell is its length, then
\* its bytes; a column type other than the Rust type's own is refused.
i64_serialize(x, typ) ==
    IF typ = Native("BigInt") THEN Ok(i32_to_be_bytes(8) \o i64_to_be_bytes(x))
    ELSE Err([error |-> "BuiltinTypeCheckError", rust_name |-> "i64", got |-> typ,
              kind |-> [name |-> "MismatchedType"]])
i32_serialize(x, typ) ==
    IF typ = Native("Int") THEN Ok(i32_to_be_bytes(4) \o i32_to_be_bytes(x))
    ELSE Err([error |-> "BuiltinTypeCheckError", rust_name |-> "i32", got |-> typ,
              kind |-> [name |-> "MismatchedType"]])

mk_ser_err_named(name, got, kind) ==
    [error |-> "BuiltinSerializationError", rust_name |-> name, got |-> got,
     kind |-> kind]
mk_typck_err_named(name, got, kind) ==
    [error |-> "BuiltinTypeCheckError", rust_name |-> name, got |-> got,
     kind |-> kind]

\* Mutation of is_unfrozen_map: the frozen flag is not matched.
is_map_of_any_frozenness(typ) ==
    /\ typ.kind = "Collection"
    /\ typ.typ.coll = "Map"
\* The first arm of the match on typ.
is_unfrozen_map(typ) ==
    /\ typ.kind = "Collection"
    /\ typ.frozen = FALSE
    /\ typ.typ.coll = "Map"

\* writer.into_value_builder(): the builder starts the cell with a 4-byte
\* header, the value's length, holding -3 until finish() fills it in.
into_value_builder(buf) == buf \o i32_to_be_bytes(-3)

\* builder.finish(): the length of what follows the header must fit an i32 and
\* is then written into the header; otherwise the header is left as it is.
\* `built` is what the buffer holds of the cell.
finish(rust_name, typ, built) ==
    LET after == Len(built.bytes) - 4      \* listed bytes behind the header
        copies == built.times[3] * 65536 + built.times[4]
        fits ==
          IF built.times = usize_from(0) THEN after <= 2147483647
          ELSE /\ built.times[1] = 0 /\ built.times[2] = 0 /\ built.times[3] < 32768
               /\ copies <= (2147483647 - after) \div Len(built.repeat)
    IN  IF fits
        THEN LET value_len ==
                   IF built.times = usize_from(0) THEN after
                   ELSE after + copies * Len(built.repeat)
             IN  [result |-> Ok("WrittenCellProof"),
                  written |-> [built EXCEPT !.bytes =
                                  i32_to_be_bytes(value_len) \o SubSeq(@, 5, Len(@))]]
        ELSE [result |-> Err(mk_ser_err_named(rust_name, typ, [name |-> "SizeOverflow"])),
              written |-> built]

\* The for loop over `times` copies of `pair`: every copy serializes as the
\* first does, so the loop ends at the first copy or appends them all.
serialize_copies(rust_name, pair, times, typ, bytes) ==
    IF times = usize_from(0)
    THEN finish(rust_name, typ, [NoCell EXCEPT !.bytes = bytes])
    ELSE LET kr == i64_serialize(pair[1], typ.typ.k)
             vr == i32_serialize(pair[2], typ.typ.v)
         IN  IF kr.tag = "Err"
             THEN [result |-> Err(mk_ser_err_named(rust_name, typ,
                       [name |-> "KeySerializationFailed", cause |-> kr.err])),
                   written |-> [NoCell EXCEPT !.bytes = bytes]]
             ELSE IF vr.tag = "Err"
             THEN [result |-> Err(mk_ser_err_named(rust_name, typ,
                       [name |-> "ValueSerializationFailed", cause |-> vr.err])),
                   written |-> [NoCell EXCEPT !.bytes = bytes \o kr.val]]
             ELSE finish(rust_name, typ,
                         [bytes |-> bytes, repeat |-> kr.val \o vr.val, times |-> times])

\* The for loop and builder.finish(); `bytes` is what the buffer holds of the
\* cell so far, `head` the listed pairs still to come.
RECURSIVE serialize_pairs(_, _, _, _, _)
serialize_pairs(rust_name, head, items, typ, bytes) ==
    IF head = <<>>
    THEN serialize_copies(rust_name, items.pair, items.times, typ, bytes)
    ELSE LET kr == i64_serialize(Head(head)[1], typ.typ.k)
             vr == i32_serialize(Head(head)[2], typ.typ.v)
         IN  IF kr.tag = "Err"
             THEN [result |-> Err(mk_ser_err_named(rust_name, typ,
                       [name |-> "KeySerializationFailed", cause |-> kr.err])),
                   written |-> [NoCell EXCEPT !.bytes = bytes]]
             ELSE IF vr.tag = "Err"
             THEN [result |-> Err(mk_ser_err_named(rust_name, typ,
                       [name |-> "ValueSerializationFailed", cause |-> vr.err])),
                   written |-> [NoCell EXCEPT !.bytes = bytes \o kr.val]]
             ELSE serialize_pairs(rust_name, Tail(head), items, typ,
                                  bytes \o kr.val \o vr.val)

serialize_mapping(rust_name, length, items, typ) ==
    IF ~is_unfrozen_map(typ)
    THEN [result |-> Err(mk_typck_err_named(rust_name, typ, [name |-> "NotMap"])),
          written |-> NoCell]
    ELSE LET builder == into_value_builder(NoCell.bytes)
             element_count == usize_try_into_i32(length)
         IN  IF element_count.tag = "Err"
             THEN [result |-> Err(mk_ser_err_named(rust_name, typ, [name |-> "TooManyElements"])),
                   written |-> [NoCell EXCEPT !.bytes = builder]]
             ELSE serialize_pairs(rust_name, items.head, items, typ,
                                  builder \o i32_to_be_bytes(element_count.val))

ScyllaUnchanged ==
    <<ContainerVars, sink, src, pos, values, gdata, glog, hsrc, hash, bulk>>

\* <SerdeMap as SerializeValue>::serialize(&self, typ, writer)
ScyllaSerialize(typ) ==
    /\ pc = "idle"
    /\ \E path \in StrategyPaths :
          LET args == [rust_name |-> type_name(path), len |-> usize_from(len(data)),
                       items |-> vec_iter(data), typ |-> typ]
              r == serialize_mapping(args.rust_name, args.len, args.items, args.typ)
          IN  /\ call' = args
              /\ cell' = r.written
              /\ result' = r.result
    /\ pc' = "scylla_done"
    /\ UNCHANGED ScyllaUnchanged

\* SerdeMap::from(vec![pair; times]): a container too long to list.
FromVecRepeated ==
    /\ pc = "idle"
    /\ data = <<>>
    /\ \E pair \in DomainKeys(strategy) \X Values, times \in LargeLens :
          bulk' = [pair |-> pair, times |-> times]
    /\ pc' = "bulk"
    /\ UNCHANGED <<ContainerVars, SerdeVars, gdata, glog, hsrc, hash, call, cell>>

\* <SerdeMap as SerializeValue>::serialize(&self, typ, writer) on that container.
ScyllaSerializeBulk(typ) ==
    /\ pc = "bulk"
    /\ \E path \in StrategyPaths :
          LET args == [rust_name |-> type_name(path), len |-> bulk.times,
                       items |-> bulk_iter(bulk), typ |-> typ]
              r == serialize_mapping(args.rust_name, args.len, args.items, args.typ)
          IN  /\ call' = args
              /\ cell' = r.written
              /\ result' = r.result
    /\ pc' = "scylla_done"
    /\ UNCHANGED ScyllaUnchanged

InitScylla == Init /\ strategy = "StringStrategy"

NextScylla ==
    \/ \E k \in DomainKeys(strategy), v \in Values : InsertUnchecked(k, v)
    \/ \E typ \in ColumnTypes : ScyllaSerialize(typ)
    \/ FromVecRepeated
    \/ \E typ \in ColumnTypes : ScyllaSerializeBulk(typ)

SpecScylla == InitScylla /\ [][NextScylla]_vars

(***************************************************************************)
(* C1: after any sequence of insert_unchecked calls on a container made by *)
(* new() or with_capacity(n), len() is the number of calls, is_empty()     *)
(* holds exactly when there were none, and each of the three iterators     *)
(* yields the inserted pairs in call order, equal keys kept apart.         *)
(***************************************************************************)
OrderPreservation ==
    /\ len(data) = Len(log)
    /\ is_empty(data) <=> (Len(log) = 0)
    /\ into_iter(data) = log
    /\ iter(data) = log
    /\ iter_mut(data) = log
    /\ \A k \in DomainKeys(strategy) :
          Cardinality({i \in 1..Len(into_iter(data)) : into_iter(data)[i][1] = k})
             = Cardinality({i \in 1..Len(log) : log[i][1] = k})

OrderPreservationWitness ==
    /\ capacity = 1
    /\ Len(log) = 3
    /\ log[1][1] = log[3][1] /\ log[1][2] # log[3][2] /\ log[2][1] # log[1][1]
    /\ len(data) = 3
    /\ data[1] = log[1] /\ data[3] = log[3]

(***************************************************************************)
(* C3: under Linear, decoding the entries a finished serialization wrote   *)
(* returns a container holding the same pairs in the same order.           *)
(***************************************************************************)
LinearRoundTrip ==
    (strategy = "Linear" /\ sink.ended /\ pc = "des_done") =>
        /\ result.tag = "Ok"
        /\ result.val = data
        /\ into_iter(result.val) = log

LinearRoundTripWitness ==
    /\ strategy = "Linear" /\ sink.ended /\ pc = "des_done"
    /\ Len(data) = 3
    /\ data[1][1] = data[3][1] /\ data[1][2] # data[3][2]
    /\ result = Ok(data)

(***************************************************************************)
(* C4: when entry i is the first delivered entry whose key the strategy's  *)
(* deserialize rejects, visit_map reads no entry after i, never returns a  *)
(* container, and returns the error deserialize gave for that key.         *)
(***************************************************************************)
BadKeys == {i \in 1..Len(src.entries) :
               KS_deserialize(strategy, src.entries[i][1]).tag = "Err"}
FirstBadKey == CHOOSE i \in BadKeys : \A j \in BadKeys : i <= j

AbortOnFirstBadKey ==
    (pc \in {"des", "des_done", "des_failed"} /\ BadKeys # {}) =>
        /\ pos <= FirstBadKey
        /\ pc # "des_done"
        /\ pos = FirstBadKey => pc = "des_failed"
        /\ pc = "des_failed" =>
              /\ pos = FirstBadKey
              /\ result = Err(KS_deserialize(strategy, src.entries[FirstBadKey][1]).err)
              /\ values = <<>>

AbortOnFirstBadKeyWitness ==
    /\ pc = "des_failed"
    /\ strategy = "StringStrategy"
    /\ Len(src.entries) = 3
    /\ src.entries[1][1] = <<"4", "2">>
    /\ src.entries[2][1] = <<"a", "b", "c">>
    /\ pos = 2
    /\ result = Err([kind |-> "custom", msg |-> "InvalidDigit"])

(***************************************************************************)
(* C5: serializing declares a map of length len(), then writes the entries *)
(* in insertion order, the i-th with key KS::serialize(i-th stored key)    *)
(* and the i-th stored value (a stored 42 goes out as "42" under the       *)
(* String/i64 strategy); a serialization that ends has written exactly     *)
(* len() entries; the container is as it was.                              *)
(***************************************************************************)
EncodingContract ==
    (pc \in {"ser", "ser_done", "ser_failed"}) =>
        /\ sink.declared = <<Len(log)>>
        /\ Len(sink.entries) = pos
        /\ pos <= Len(log)
        /\ \A i \in 1..pos :
              /\ sink.entries[i] = <<KS_serialize(strategy, log[i][1]), log[i][2]>>
              /\ (strategy = "StringStrategy" /\ log[i][1] = 42)
                    => sink.entries[i][1] = <<"4", "2">>
              /\ (strategy = "StringStrategy" /\ log[i][1] = -7)
                    => sink.entries[i][1] = <<"-", "7">>
              /\ strategy = "Linear" => sink.entries[i][1] = log[i][1]
        /\ pc = "ser_done" => (pos = Len(log) /\ sink.ended /\ result = Ok("unit"))
        /\ data = log

EncodingContractWitness ==
    /\ pc = "ser_done"
    /\ strategy = "StringStrategy"
    /\ Len(data) = 3
    /\ data[1][1] = 42 /\ data[2][1] = -7 /\ data[3][1] = 42
    /\ sink.declared = <<3>>
    /\ Len(sink.entries) = 3
    /\ sink.entries[1][1] = <<"4", "2">>

(***************************************************************************)
(* C2: push_to_same_last(k, v) appends v to the last entry's values when   *)
(* the container is non-empty and that entry's key is k, and appends the   *)
(* new entry (k, [v]) otherwise; so (k,v1),(k,v2) gives the one entry      *)
(* (k,[v1,v2]), and (k,v1),(k2,v3),(k,v2) with k2 # k gives three entries, *)
(* the two k entries not merged.                                           *)
(***************************************************************************)
MergeGroupStep ==
    \A k \in DomainKeys(strategy), v \in Values :
        (glog' = Append(glog, <<k, v>>)) =>
            /\ (Len(gdata) > 0 /\ gdata[Len(gdata)][1] = k) =>
                  /\ Len(gdata') = Len(gdata)
                  /\ \A i \in 1..(Len(gdata) - 1) : gdata'[i] = gdata[i]
                  /\ gdata'[Len(gdata)] = <<k, gdata[Len(gdata)][2] \o <<v>>>>
            /\ (Len(gdata) = 0 \/ gdata[Len(gdata)][1] # k) =>
                  gdata' = gdata \o << <<k, <<v>>>> >>

MergeGroupExamples ==
    \A k, k2 \in DomainKeys(strategy), v1, v2, v3 \in Values :
        /\ (glog' = << <<k, v1>>, <<k, v2>> >>) =>
              gdata' = << <<k, <<v1, v2>>>> >>
        /\ (k2 # k /\ glog' = << <<k, v1>>, <<k2, v3>>, <<k, v2>> >>) =>
              gdata' = << <<k, <<v1>>>>, <<k2, <<v3>>>>, <<k, <<v2>>>> >>

MergeGroupLaw == [][MergeGroupStep /\ MergeGroupExamples]_vars

MergeGroupLawWitness ==
    /\ Len(glog) = 3
    /\ glog[1][1] = glog[3][1] /\ glog[2][1] # glog[1][1]
    /\ Len(gdata) = 3
    /\ gdata[1][1] = gdata[3][1]

(***************************************************************************)
(* C10: in every state reached from the empty container by                 *)
(* push_to_same_last calls alone, no two adjacent entries have equal keys, *)
(* no entry's value sequence is empty, and the value sequences laid end to *)
(* end, each value under its entry's key, are the pushes in call order;    *)
(* every call leaves all entries but the last as they were and never       *)
(* shortens the container.                                                 *)
(***************************************************************************)
RECURSIVE Flatten(_)
Flatten(vec) ==
    IF vec = <<>> THEN <<>>
    ELSE [j \in 1..Len(Head(vec)[2]) |-> <<Head(vec)[1], Head(vec)[2][j]>>]
            \o Flatten(Tail(vec))

MergeGroupState ==
    /\ \A i \in 1..(Len(gdata) - 1) : gdata[i][1] # gdata[i + 1][1]
    /\ \A i \in 1..Len(gdata) : Len(gdata[i][2]) > 0
    /\ Flatten(gdata) = glog

MergeGroupFrame ==
    /\ Len(gdata') >= Len(gdata)
    /\ \A i \in 1..(Len(gdata) - 1) : gdata'[i] = gdata[i]
    /\ \A i \in 1..(Len(gdata') - 1) : i <= Len(gdata) /\ gdata'[i] = gdata[i]

MergeGroupInvariant == []MergeGroupState /\ [][MergeGroupFrame]_vars

MergeGroupInvariantWitness ==
    /\ Len(glog) = 4
    /\ Len(gdata) = 2
    /\ Len(gdata[1][2]) = 2 /\ Len(gdata[2][2]) = 2
    /\ gdata[1][2][1] # gdata[1][2][2]

(***************************************************************************)
(* C6: the HashMap made from a container has the container's keys as its   *)
(* key set, each mapped to the value of its last occurrence.               *)
(***************************************************************************)
LastOccurrence(vec, k) ==
    CHOOSE i \in 1..Len(vec) :
        vec[i][1] = k /\ \A j \in (i + 1)..Len(vec) : vec[j][1] # k

LastOccurrenceWins ==
    (pc \in {"vec_to_hash", "hash_to_hash"}) =>
        /\ DOMAIN hash = {data[i][1] : i \in 1..Len(data)}
        /\ \A k \in DOMAIN hash : hash[k] = data[LastOccurrence(data, k)][2]

LastOccurrenceWinsWitness ==
    /\ pc = "vec_to_hash"
    /\ Len(data) = 3
    /\ data[1][1] = data[3][1] /\ data[1][2] # data[3][2] /\ data[2][1] # data[1][1]
    /\ Cardinality(DOMAIN hash) = 2
    /\ hash[data[1][1]] = data[3][2]

(***************************************************************************)
(* C7: a container built from a HashMap of N entries has len() N, and the  *)
(* HashMap made from it equals the original, whatever order the original   *)
(* yielded its entries in.                                                 *)
(***************************************************************************)
HashMapRoundTrip ==
    /\ (pc \in {"from_hash", "hash_to_hash"}) =>
          /\ len(data) = Cardinality(DOMAIN hsrc)
          /\ {data[i] : i \in 1..Len(data)} = {<<k, hsrc[k]>> : k \in DOMAIN hsrc}
    /\ pc = "hash_to_hash" =>
          /\ DOMAIN hash = DOMAIN hsrc
          /\ \A k \in DOMAIN hsrc : hash[k] = hsrc[k]

HashMapRoundTripWitness ==
    /\ pc = "hash_to_hash"
    /\ Cardinality(DOMAIN hsrc) = 3
    /\ len(data) = 3
    /\ \E k1, k2 \in DOMAIN hsrc : hsrc[k1] # hsrc[k2]
    /\ \E i \in 1..2 : \E k1, k2 \in DOMAIN hsrc :
          /\ data[i][1] = k1 /\ data[i + 1][1] = k2
          /\ IF strategy = "Linear" THEN Len(k1) > Len(k2) ELSE k1 > k2

(***************************************************************************)
(* C8: serializing against a column type that is not an unfrozen map (not  *)
(* a collection, a list or a set, or a frozen map) fails with the type     *)
(* check error NotMap, naming the Rust type and the column type, and       *)
(* nothing is appended to the cell.                                        *)
(***************************************************************************)
NotUnfrozenMap(typ) ==
    \/ typ.kind # "Collection"
    \/ typ.typ.coll \in {"List", "Set"}
    \/ typ.frozen

NotMapRejected ==
    (pc = "scylla_done" /\ NotUnfrozenMap(call.typ)) =>
        /\ result = Err([error |-> "BuiltinTypeCheckError",
                         rust_name |-> call.rust_name,
                         got |-> call.typ,
                         kind |-> [name |-> "NotMap"]])
        /\ cell.bytes = <<>>
        /\ cell.times = <<0, 0, 0, 0>>

NotMapRejectedWitness ==
    /\ pc = "scylla_done"
    /\ call.rust_name \in {type_name(path) : path \in StrategyPaths}
    /\ call.typ = Collection(TRUE, MapOf(Native("BigInt"), Native("Int")))
    /\ Len(data) = 2
    /\ call.items.head = data
    /\ call.len = <<0, 0, 0, 2>>
    /\ result.tag = "Err"
    /\ result.err.kind.name = "NotMap"

(***************************************************************************)
(* C9, as amended: against an unfrozen map column, a length above i32::MAX *)
(* fails with the serialization error TooManyElements before the element   *)
(* count or any key or value is appended, the cell then holding only the   *)
(* 4-byte header into_value_builder() leaves (-3, big-endian); when the    *)
(* length fits, the first bytes appended (right behind that header) are    *)
(* its 4-byte big-endian encoding.                                         *)
(***************************************************************************)
I32Max == <<0, 0, 32767, 65535>>

UsizeGreater(a, b) ==
    \E i \in 1..4 : a[i] > b[i] /\ \A j \in 1..(i - 1) : a[j] = b[j]

TooManyElementsReturned ==
    result = Err([error |-> "BuiltinSerializationError",
                  rust_name |-> call.rust_name,
                  got |-> call.typ,
                  kind |-> [name |-> "TooManyElements"]])

ElementCountCapacity ==
    (pc = "scylla_done" /\ ~NotUnfrozenMap(call.typ)) =>
        IF UsizeGreater(call.len, I32Max)
        THEN /\ TooManyElementsReturned
             /\ cell.bytes = <<255, 255, 255, 253>>
             /\ cell.times = <<0, 0, 0, 0>>
        ELSE /\ Len(cell.bytes) >= 8
             /\ \A i \in 1..8 : cell.bytes[i] \in 0..255
             /\ cell.bytes[5] * 256 + cell.bytes[6] = call.len[3]
             /\ cell.bytes[7] * 256 + cell.bytes[8] = call.len[4]
             /\ (result.tag = "Err") => result.err.kind.name # "TooManyElements"

ElementCountCapacityWitness ==
    /\ pc = "scylla_done"
    /\ call.typ = Collection(FALSE, MapOf(Native("BigInt"), Native("Int")))
    /\ bulk.times = <<0, 1, 0, 2>>
    /\ call.len = bulk.times
    /\ call.items.times = bulk.times
    /\ result.tag = "Err"
    /\ result.err.kind.name = "TooManyElements"
    /\ cell.bytes = <<255, 255, 255, 253>>

(***************************************************************************)
(* C9, as first stated: a length above i32::MAX fails with TooManyElements *)
(* before any byte is written to the cell; when the length fits, the first *)
(* bytes appended are its 4-byte big-endian encoding.                      *)
(***************************************************************************)
ElementCountCapacityNoBytes ==
    (pc = "scylla_done" /\ ~NotUnfrozenMap(call.typ)) =>
        IF UsizeGreater(call.len, I32Max)
        THEN /\ TooManyElementsReturned
             /\ cell.bytes = <<>>
             /\ cell.times = <<0, 0, 0, 0>>
        ELSE /\ Len(cell.bytes) >= 8
             /\ cell.bytes[5] * 256 + cell.bytes[6] = call.len[3]
             /\ cell.bytes[7] * 256 + cell.bytes[8] = call.len[4]

====
